---- MODULE Spec2Model ----
(***************************************************************************)
(* Model of the multi-platform job search generator (src/app.py):          *)
(* the two search-string validators, the LinkedIn result estimator and the *)
(* display loop that runs them, the prompt of create_improved_prompt, the  *)
(* response handling of analyze_job_description and the session state     *)
(* that the generate and clear buttons act on.                             *)
(*                                                                         *)
(* A string is a sequence of one-character strings.                        *)
(***************************************************************************)
EXTENDS Integers, Sequences, FiniteSets, TLC

VARIABLES
    search_string,     \* the string handed to the validators (display loop)
    pc,                \* position of the display code for that string
    validation,        \* report of validate_linkedin_search
    estimate,          \* report of estimate_linkedin_results
    da_validation,     \* report of validate_developmentaid_search
    api_key,           \* module-level credential ("" when none was found)
    analysis_results,  \* st.session_state.analysis_results
    domain_detected,   \* st.session_state.domain_detected
    content,           \* body of the last model response ("" before any)
    outcome,           \* how the last generation request ended
    returned,          \* value returned by the last analyze_job_description
    raw_shown,         \* whether the last request displayed the raw response
    calls,             \* model calls made by the last generation request
    job_text,          \* the job text handed to create_improved_prompt
    prompt,            \* the prompt it built (<<>> before it did)
    displayed          \* what the LinkedIn display loop showed for the entry
                       \* before this one (<<>> at the first entry)

vars == <<search_string, pc, validation, estimate, da_validation, api_key,
          analysis_results, domain_detected, content, outcome, returned,
          raw_shown, calls, job_text, prompt, displayed>>

validator_vars == <<search_string, pc, validation, estimate, da_validation,
                    displayed>>
session_vars == <<api_key, analysis_results, domain_detected, content, outcome,
                  returned, raw_shown, calls, job_text, prompt>>

(***************************************************************************)
(* Bounds of the model.                                                    *)
(***************************************************************************)
MaxWords == 3
MaxOps == 5
MaxSyms == 4
MaxLong == 3
MaxBody == 4
MaxReply == 2

(***************************************************************************)
(* Characters and strings.                                                 *)
(***************************************************************************)
LowerLetters == <<"a", "d", "e", "i", "l", "n", "o", "r", "t", "x">>
UpperLetters == <<"A", "D", "E", "I", "L", "N", "O", "R", "T", "X">>

Range(f) == {f[i] : i \in DOMAIN f}

\* str.upper() on one character
ToUpper(c) ==
    IF \E i \in DOMAIN LowerLetters : LowerLetters[i] = c
    THEN UpperLetters[CHOOSE i \in DOMAIN LowerLetters : LowerLetters[i] = c]
    ELSE c

\* str.lower() on one character
ToLower(c) ==
    IF \E i \in DOMAIN UpperLetters : UpperLetters[i] = c
    THEN LowerLetters[CHOOSE i \in DOMAIN UpperLetters : UpperLetters[i] = c]
    ELSE c

upper(s) == [i \in 1..Len(s) |-> ToUpper(s[i])]
lower(s) == [i \in 1..Len(s) |-> ToLower(s[i])]

\* the class \w of the re module
IsWordChar(c) ==
    c \in Range(LowerLetters) \cup Range(UpperLetters) \cup {"_", "0", "1"}

\* sub occurs in s at position i
MatchAt(s, sub, i) ==
    /\ i >= 1
    /\ i + Len(sub) - 1 <= Len(s)
    /\ \A k \in 1..Len(sub) : s[i + k - 1] = sub[k]

Occurrences(s, sub) == {i \in 1..Len(s) : MatchAt(s, sub, i)}

RECURSIVE CountFrom(_, _, _)
CountFrom(occ, width, from) ==
    LET later == {i \in occ : i >= from}
    IN  IF later = {} THEN 0
        ELSE LET first == CHOOSE i \in later : \A j \in later : i <= j
             IN  1 + CountFrom(occ, width, first + width)

\* str.count(sub): occurrences found left to right, none overlapping another
count(s, sub) == CountFrom(Occurrences(s, sub), Len(sub), 1)

\* `sub in s`
Contains(s, sub) == Occurrences(s, sub) # {}

\* the assertion \b between s[i-1] and s[i]
WordBoundary(s, i) ==
    LET before == i > 1 /\ i - 1 <= Len(s) /\ IsWordChar(s[i - 1])
        after  == i >= 1 /\ i <= Len(s) /\ IsWordChar(s[i])
    IN  before # after

\* re.search(r'\b(w1|w2|...)\b', s)
SearchWholeWord(s, words) ==
    \E w \in words : \E i \in 1..Len(s) :
        /\ MatchAt(s, w, i)
        /\ WordBoundary(s, i)
        /\ WordBoundary(s, i + Len(w))

(***************************************************************************)
(* Literals of the validators.                                             *)
(***************************************************************************)
AND_TOKEN == <<" ", "A", "N", "D", " ">>
OR_TOKEN == <<" ", "O", "R", " ">>
NOT_TOKEN == <<" ", "N", "O", "T", " ">>
TITLE_TOKEN == <<"t", "i", "t", "l", "e", ":">>
LowerOperators == {<<"a", "n", "d">>, <<"o", "r">>, <<"n", "o", "t">>}
UpperOperators == {<<"A", "N", "D">>, <<"O", "R">>, <<"N", "O", "T">>}

LowercaseIssue == "Boolean operators must be UPPERCASE (AND, OR, NOT)"
QuotesIssue == "Unmatched quotes detected"
ParensIssue == "Unmatched parentheses"
LongWarning == "Search string very long (>1000 chars) - may be slow"
ManyAndWarning == "Too many AND operators - may be too restrictive"
ManyTitleWarning == "Multiple title: operators - very restrictive"
UppercaseWarning == "Using uppercase AND/OR/NOT - DevelopmentAid uses +, |, - instead"
BoostWarning == "Boost operator ^ should be used with OR (|)"
PrefixWildcardIssue == "Wildcard * cannot be used before word stem (e.g., *finance is invalid)"
PhraseWildcardIssue == "Wildcard * cannot be used inside quoted phrases"

LongLimit == 1000
ManyAndLimit == 4
ManyTitleLimit == 2
PenaltyLimit == 500

\* the list after `if cond: list.append(item)`
AppendIf(list, cond, item) == IF cond THEN Append(list, item) ELSE list

\* a search that ignores letter case
HasOperatorAnyCase(s) == SearchWholeWord(lower(s), LowerOperators)

\* re.search(r'\b(and|or|not)\b', search_string)
HasLowercaseOperator(s) == SearchWholeWord(s, LowerOperators)

\* re.search(r'\b(AND|OR|NOT)\b', search_string)
HasUppercaseOperator(s) == SearchWholeWord(s, UpperOperators)

\* a test for one lone quote only
UnmatchedQuotesSingle(s) == count(s, <<"\"">>) = 1

\* search_string.count('"') % 2 != 0
UnmatchedQuotes(s) == count(s, <<"\"">>) % 2 # 0

\* search_string.count('(') != search_string.count(')')
UnmatchedParens(s) == count(s, <<"(">>) # count(s, <<")">>)

\* validity that also asks for no warnings
IsValidNoWarnings(issues, warnings) == Len(issues) = 0 /\ Len(warnings) = 0

\* "valid": len(issues) == 0
IsValid(issues, warnings) == Len(issues) = 0

\* counting in the string as given
and_count_as_given(s) == count(s, AND_TOKEN)

\* search_string.upper().count(' AND ')
li_and_count(s) == count(upper(s), AND_TOKEN)

\* search_string.upper().count(' OR ')
li_or_count(s) == count(upper(s), OR_TOKEN)

\* search_string.lower().count('title:')
li_title_count(s) == count(lower(s), TITLE_TOKEN)

\* complexity_score is held in tenths: every term is a multiple of 0.1, so
\* round(complexity_score, 1) leaves it as it is.
validate_linkedin_search(s) ==
    LET i1 == AppendIf(<<>>, HasLowercaseOperator(s), LowercaseIssue)
        i2 == AppendIf(i1, UnmatchedQuotes(s), QuotesIssue)
        issues == AppendIf(i2, UnmatchedParens(s), ParensIssue)
        w1 == AppendIf(<<>>, Len(s) > LongLimit, LongWarning)
        and_count == li_and_count(s)
        or_count == li_or_count(s)
        title_count == li_title_count(s)
        complexity_x10 == (and_count * 20) + (or_count * 5) + (title_count * 30)
        w2 == AppendIf(w1, and_count > ManyAndLimit, ManyAndWarning)
        warnings == AppendIf(w2, title_count > ManyTitleLimit, ManyTitleWarning)
    IN  [valid |-> IsValid(issues, warnings),
         issues |-> issues,
         warnings |-> warnings,
         complexity_x10 |-> complexity_x10,
         and_count |-> and_count,
         or_count |-> or_count,
         title_count |-> title_count,
         not_count |-> 0,
         length |-> Len(s)]

(***************************************************************************)
(* The estimator. The score is an exact fraction <<numerator, denominator>>*)
(* in lowest terms; 0.35, 0.25 and 0.7 are 7/20, 1/4 and 7/10.             *)
(***************************************************************************)
RECURSIVE GCD(_, _)
GCD(a, b) == IF b = 0 THEN a ELSE GCD(b, a % b)

Reduce(n, d) == LET g == GCD(n, d) IN <<n \div g, d \div g>>

Times(q, r) ==
    LET a == Reduce(q[1], r[2])
        b == Reduce(r[1], q[2])
    IN  <<a[1] * b[1], a[2] * b[2]>>

RECURSIVE Power(_, _)
Power(q, n) == IF n = 0 THEN <<1, 1>> ELSE Times(q, Power(q, n - 1))

Greater(q, k) == q[1] > k * q[2]

BaselineScore == 100
GoodScore == 50
AcceptableScore == 20
RestrictiveScore == 5

\* the if/elif chain over score
Band(score) ==
    IF Greater(score, GoodScore) THEN "500-2000+"
    ELSE IF Greater(score, AcceptableScore) THEN "100-500"
    ELSE IF Greater(score, RestrictiveScore) THEN "20-100"
    ELSE "0-20"

Quality(score) ==
    IF Greater(score, GoodScore) THEN "Good breadth"
    ELSE IF Greater(score, AcceptableScore) THEN "Acceptable"
    ELSE IF Greater(score, RestrictiveScore) THEN "May be restrictive"
    ELSE "Likely too restrictive"

\* the penalty applied from the length of the long-string warning on
LengthPenaltyLate(score, length) ==
    IF length > LongLimit THEN Times(score, <<7, 10>>) ELSE score

\* score *= 0.7 when validation['length'] > 500
LengthPenalty(score, length) ==
    IF length > PenaltyLimit THEN Times(score, <<7, 10>>) ELSE score

\* the title: penalty as a product, 0.25 * title_count, not as a power
EstimateFromTitleProduct(v) ==
    LET s0 == <<BaselineScore, 1>>
        s1 == Times(s0, Power(<<7, 20>>, v.and_count))
        s2 == Times(s1, <<v.title_count, 4>>)
        score == LengthPenalty(s2, v.length)
    IN  [estimated_range |-> Band(score),
         score |-> score,
         quality |-> Quality(score)]

\* the body of estimate_linkedin_results after `validation = ...`;
\* "score" holds the score before round(score, 1)
EstimateFrom(v) ==
    LET s0 == <<BaselineScore, 1>>
        s1 == Times(s0, Power(<<7, 20>>, v.and_count))
        s2 == Times(s1, Power(<<1, 4>>, v.title_count))
        score == LengthPenalty(s2, v.length)
    IN  [estimated_range |-> Band(score),
         score |-> score,
         quality |-> Quality(score)]

estimate_linkedin_results(s) ==
    CHOOSE e \in {EstimateFrom(v) : v \in {validate_linkedin_search(s)}} : TRUE

(***************************************************************************)
(* The DevelopmentAid validator.                                           *)
(***************************************************************************)
\* the boost check without its test for '|'
BoostAlone(s) == Contains(s, <<"^">>)

\* '^' in search_string and '|' not in search_string
BoostWithoutOr(s) == Contains(s, <<"^">>) /\ ~Contains(s, <<"|">>)

\* the pattern \*\w* : any wildcard at all
HasAnyWildcard(s) == \E i \in 1..Len(s) : s[i] = "*"

\* re.search(r'\*\w+', search_string)
HasPrefixWildcard(s) ==
    \E i \in 1..Len(s) : s[i] = "*" /\ i < Len(s) /\ IsWordChar(s[i + 1])

\* the pattern "[^"]+\*[^"]*" : a wildcard right after the quote is missed
HasPhraseWildcardAfterText(s) ==
    \E i \in 1..Len(s) :
        /\ s[i] = "\""
        /\ \E j \in (i + 2)..Len(s) :
               /\ s[j] = "*"
               /\ \A m \in (i + 1)..j : s[m] # "\""
               /\ \E k \in (j + 1)..Len(s) :
                      /\ s[k] = "\""
                      /\ \A m \in (j + 1)..(k - 1) : s[m] # "\""

\* re.search(r'"[^"]*\*[^"]*"', search_string)
HasPhraseWildcard(s) ==
    \E i \in 1..Len(s) :
        /\ s[i] = "\""
        /\ \E j \in (i + 1)..Len(s) :
               /\ s[j] = "*"
               /\ \A m \in (i + 1)..j : s[m] # "\""
               /\ \E k \in (j + 1)..Len(s) :
                      /\ s[k] = "\""
                      /\ \A m \in (j + 1)..(k - 1) : s[m] # "\""

\* complexity_score in tenths, as in validate_linkedin_search
validate_developmentaid_search(s) ==
    LET warn1 == AppendIf(<<>>, HasUppercaseOperator(s), UppercaseWarning)
        i1 == AppendIf(<<>>, UnmatchedQuotes(s), QuotesIssue)
        i2 == AppendIf(i1, UnmatchedParens(s), ParensIssue)
        warnings == AppendIf(warn1, BoostWithoutOr(s), BoostWarning)
        i3 == AppendIf(i2, HasPrefixWildcard(s), PrefixWildcardIssue)
        issues == AppendIf(i3, HasPhraseWildcard(s), PhraseWildcardIssue)
        and_count == count(s, <<"+">>) + count(s, AND_TOKEN)
        or_count == count(s, <<"|">>) + count(s, OR_TOKEN)
        not_count == count(s, <<"-">>) + count(s, NOT_TOKEN)
        complexity_x10 == (and_count * 15) + (or_count * 3) + (not_count * 10)
    IN  [valid |-> IsValid(issues, warnings),
         issues |-> issues,
         warnings |-> warnings,
         complexity_x10 |-> complexity_x10,
         and_count |-> and_count,
         or_count |-> or_count,
         title_count |-> 0,
         not_count |-> not_count,
         length |-> Len(s)]

(***************************************************************************)
(* Python values: None, str, int, list and dict share one record shape.    *)
(* A dict holds its keys and values as two sequences in insertion order.   *)
(***************************************************************************)
None == [kind |-> "None", text |-> <<>>, keys |-> <<>>, items |-> <<>>]
PyStr(chars) == [kind |-> "str", text |-> chars, keys |-> <<>>, items |-> <<>>]
PyInt(digits) == [kind |-> "int", text |-> digits, keys |-> <<>>, items |-> <<>>]
PyList(items) == [kind |-> "list", text |-> <<>>, keys |-> <<>>, items |-> items]
PyDict(keys, items) == [kind |-> "dict", text |-> <<>>, keys |-> keys, items |-> items]

\* bool(v)
Truthy(v) ==
    CASE v.kind = "None" -> FALSE
      [] v.kind = "str" -> v.text # <<>>
      [] v.kind = "int" -> \E i \in 1..Len(v.text) : v.text[i] # "0"
      [] v.kind = "list" -> v.items # <<>>
      [] v.kind = "dict" -> v.keys # <<>>

\* d[key] = value
DictSet(d, key, value) ==
    IF \E i \in 1..Len(d.keys) : d.keys[i] = key
    THEN LET i == CHOOSE i \in 1..Len(d.keys) : d.keys[i] = key
         IN  PyDict(d.keys, [d.items EXCEPT ![i] = value])
    ELSE PyDict(Append(d.keys, key), Append(d.items, value))

\* d.get(key, default)
DictGet(d, key, default) ==
    IF \E i \in 1..Len(d.keys) : d.keys[i] = key
    THEN d.items[CHOOSE i \in 1..Len(d.keys) : d.keys[i] = key]
    ELSE default

(***************************************************************************)
(* json.loads over the characters { } [ ] : , " space, letters and the     *)
(* digits 0 and 1. A parse answers [ok, val, next]: whether it succeeded,  *)
(* the value and the position after it. Escapes, fractions, exponents and  *)
(* the literals true, false and null are outside this alphabet.            *)
(***************************************************************************)
Failed == [ok |-> FALSE, val |-> None, next |-> 0]
Parsed(v, n) == [ok |-> TRUE, val |-> v, next |-> n]

Whitespace == {" "}
Digits == {"0", "1"}

\* the first position from i on that holds no whitespace
SkipWhitespace(s, i) ==
    CHOOSE j \in i..(Len(s) + 1) :
        /\ j <= Len(s) => s[j] \notin Whitespace
        /\ \A k \in i..(j - 1) : s[k] \in Whitespace

\* the string literal whose opening quote is at i
scanstring(s, i) ==
    LET closing == {j \in (i + 1)..Len(s) : s[j] = "\""}
    IN  IF closing = {} THEN Failed
        ELSE LET j == CHOOSE j \in closing : \A k \in closing : j <= k
             IN  Parsed(PyStr(SubSeq(s, i + 1, j - 1)), j + 1)

\* the number at i: 0, or a run of digits that does not start with 0
scannumber(s, i) ==
    IF s[i] = "0" THEN Parsed(PyInt(<<"0">>), i + 1)
    ELSE LET j == CHOOSE j \in i..Len(s) :
                      /\ \A k \in i..j : s[k] \in Digits
                      /\ j < Len(s) => s[j + 1] \notin Digits
         IN  Parsed(PyInt(SubSeq(s, i, j)), j + 1)

RECURSIVE scan_once(_, _)
RECURSIVE JSONObject(_, _, _)
RECURSIVE JSONArray(_, _, _)

\* the value that starts at i
scan_once(s, i) ==
    IF i > Len(s) THEN Failed
    ELSE IF s[i] = "\"" THEN scanstring(s, i)
    ELSE IF s[i] = "{" THEN
        LET j == SkipWhitespace(s, i + 1)
        IN  IF j > Len(s) THEN Failed
            ELSE IF s[j] = "}" THEN Parsed(PyDict(<<>>, <<>>), j + 1)
            ELSE JSONObject(s, j, PyDict(<<>>, <<>>))
    ELSE IF s[i] = "[" THEN
        LET j == SkipWhitespace(s, i + 1)
        IN  IF j > Len(s) THEN Failed
            ELSE IF s[j] = "]" THEN Parsed(PyList(<<>>), j + 1)
            ELSE JSONArray(s, j, <<>>)
    ELSE IF s[i] \in Digits THEN scannumber(s, i)
    ELSE Failed

\* the members of an object from the key at i on, d holding those before
JSONObject(s, i, d) ==
    IF i > Len(s) \/ s[i] # "\"" THEN Failed
    ELSE \* key, ':', value, then '}' or ','
        LET key == scanstring(s, i)
        IN  IF ~key.ok THEN Failed
            ELSE LET colon == SkipWhitespace(s, key.next)
                 IN  IF colon > Len(s) \/ s[colon] # ":" THEN Failed
                     ELSE LET value == scan_once(s, SkipWhitespace(s, colon + 1))
                          IN  IF ~value.ok THEN Failed
                              ELSE LET after == SkipWhitespace(s, value.next)
                                       d2 == DictSet(d, key.val.text, value.val)
                                   IN  IF after > Len(s) THEN Failed
                                       ELSE IF s[after] = "}" THEN Parsed(d2, after + 1)
                                       ELSE IF s[after] = ","
                                       THEN JSONObject(s, SkipWhitespace(s, after + 1), d2)
                                       ELSE Failed

\* the elements of an array from the value at i on, items holding those before
JSONArray(s, i, items) ==
    LET value == scan_once(s, i)
    IN  IF ~value.ok THEN Failed
        ELSE LET after == SkipWhitespace(s, value.next)
                 items2 == Append(items, value.val)
             IN  IF after > Len(s) THEN Failed
                 ELSE IF s[after] = "]" THEN Parsed(PyList(items2), after + 1)
                 ELSE IF s[after] = ","
                 THEN JSONArray(s, SkipWhitespace(s, after + 1), items2)
                 ELSE Failed

\* json.loads(s): one value with nothing but whitespace around it;
\* ok = FALSE stands for json.JSONDecodeError
json_loads(s) ==
    LET value == scan_once(s, SkipWhitespace(s, 1))
    IN  IF value.ok /\ SkipWhitespace(s, value.next) > Len(s)
        THEN value
        ELSE Failed

\* str.find(c), as a position from 1, 0 when c is absent (Python's -1)
find(s, c) ==
    IF \E i \in 1..Len(s) : s[i] = c
    THEN CHOOSE i \in 1..Len(s) : s[i] = c /\ \A k \in 1..(i - 1) : s[k] # c
    ELSE 0

\* str.rfind(c), as a position from 1, 0 when c is absent
rfind(s, c) ==
    IF \E i \in 1..Len(s) : s[i] = c
    THEN CHOOSE i \in 1..Len(s) : s[i] = c /\ \A k \in (i + 1)..Len(s) : s[k] # c
    ELSE 0

(***************************************************************************)
(* The search strings the validators are run on: every concatenation of a  *)
(* few pieces of one of four vocabularies.                                 *)
(***************************************************************************)
RECURSIVE Concat(_)
Concat(pieces) ==
    IF pieces = <<>> THEN <<>> ELSE Head(pieces) \o Concat(Tail(pieces))

Sentences(vocabulary, n) ==
    {Concat(p) : p \in UNION {[1..k -> vocabulary] : k \in 0..n}}

\* a run of word characters one longer than the length that is penalised
Filler == [i \in 1..(PenaltyLimit + 1) |-> "x"]

WordPieces ==
    {<<" ">>, <<"x">>, <<"_">>, <<"(">>, <<")">>, <<"a", "n", "d">>,
     <<"A", "N", "D">>, <<"A", "n", "d">>, <<"o", "r">>, <<"O", "R">>,
     <<"n", "o", "t">>}

OpPieces ==
    {AND_TOKEN, <<" ", "a", "n", "d", " ">>, TITLE_TOKEN, <<"\"">>}

LongPieces == {Filler, AND_TOKEN, <<"T", "i", "t", "l", "e", ":">>}

SymPieces ==
    {<<"*">>, <<"\"">>, <<"x">>, <<" ">>, <<"^">>, <<"|">>,
     <<"\"", "x", "\"">>}

SearchStrings ==
    Sentences(WordPieces, MaxWords) \cup Sentences(OpPieces, MaxOps)
        \cup Sentences(SymPieces, MaxSyms) \cup Sentences(LongPieces, MaxLong)

NoReport ==
    [valid |-> FALSE, issues |-> <<>>, warnings |-> <<>>, complexity_x10 |-> 0,
     and_count |-> 0, or_count |-> 0, title_count |-> 0, not_count |-> 0,
     length |-> 0]

NoEstimate == [estimated_range |-> "", score |-> <<0, 1>>, quality |-> ""]

SessionIdle ==
    /\ api_key = ""
    /\ analysis_results = None
    /\ domain_detected = None
    /\ content = <<>>
    /\ outcome = "none"
    /\ returned = None
    /\ raw_shown = FALSE
    /\ calls = 0
    /\ job_text = <<>>
    /\ prompt = <<>>

(***************************************************************************)
(* The display code on one generated search string: the LinkedIn column    *)
(* validates and then estimates, the DevelopmentAid column validates.      *)
(***************************************************************************)
InitValidate ==
    /\ search_string \in SearchStrings
    /\ pc = "shown"
    /\ validation = NoReport
    /\ estimate = NoEstimate
    /\ da_validation = NoReport
    /\ displayed = <<>>
    /\ SessionIdle

ValidateLinkedin ==
    /\ pc = "shown"
    /\ validation' = validate_linkedin_search(search_string)
    /\ pc' = "validated"
    /\ UNCHANGED <<search_string, estimate, da_validation, session_vars>>
    /\ UNCHANGED displayed

EstimateLinkedin ==
    /\ pc = "validated"
    /\ estimate' = estimate_linkedin_results(search_string)
    /\ pc' = "estimated"
    /\ UNCHANGED <<search_string, validation, da_validation, session_vars>>
    /\ UNCHANGED displayed

ValidateDevelopmentaid ==
    /\ pc = "estimated"
    /\ da_validation' = validate_developmentaid_search(search_string)
    /\ pc' = "done"
    /\ UNCHANGED <<search_string, validation, estimate, session_vars>>
    /\ UNCHANGED displayed

NextValidate == ValidateLinkedin \/ EstimateLinkedin \/ ValidateDevelopmentaid

SpecValidate == InitValidate /\ [][NextValidate]_vars

(***************************************************************************)
(* The LinkedIn display loop over the entries of the analysis: each entry  *)
(* is validated and estimated, then the loop goes on to the next entry.    *)
(* The entries are strings with up to MaxCount ' AND ' and 'title:', with  *)
(* and without a run that takes them over the penalised length.            *)
(***************************************************************************)
MaxCount == 2

RECURSIVE Repeat(_, _)
Repeat(piece, n) == IF n = 0 THEN <<>> ELSE piece \o Repeat(piece, n - 1)

Entries ==
    {Repeat(Filler, p) \o Repeat(AND_TOKEN, a) \o Repeat(TITLE_TOKEN, t) :
        p \in 0..1, a \in 0..MaxCount, t \in 0..MaxCount}

InitLoop ==
    /\ search_string \in Entries
    /\ pc = "shown"
    /\ validation = NoReport
    /\ estimate = NoEstimate
    /\ da_validation = NoReport
    /\ displayed = <<>>
    /\ SessionIdle

\* `for key, search_data in searches.items()`: the next entry
NextSearch ==
    /\ pc = "estimated"
    /\ displayed' = <<[search_string |-> search_string,
                       validation |-> validation,
                       estimate |-> estimate]>>
    /\ search_string' \in Entries
    /\ pc' = "shown"
    /\ UNCHANGED <<validation, estimate, da_validation, session_vars>>

NextLoop == ValidateLinkedin \/ EstimateLinkedin \/ NextSearch

SpecLoop == InitLoop /\ [][NextLoop]_vars

(***************************************************************************)
(* analyze_job_description: what one call leaves behind, given the         *)
(* credential, the domain, the provider's answer (an exception, or a       *)
(* response body) and the session fields as they were.                     *)
(***************************************************************************)
DOMAIN_KEY ==
    <<"d", "o", "m", "a", "i", "n", "_", "d", "e", "t", "e", "c", "t", "e", "d">>

Raised == [raises |-> TRUE, body |-> <<>>]
Body(chars) == [raises |-> FALSE, body |-> chars]

\* an exit that writes nothing to the session
Leave(held, held_domain, how, raw, n) ==
    [analysis_results |-> held, domain_detected |-> held_domain,
     outcome |-> how, returned |-> None, raw_shown |-> raw, calls |-> n]

\* st.session_state.analysis_results = result
\* st.session_state.domain_detected = result.get("domain_detected", domain)
\* return result
\* The session is written first and the domain read second, so a value that
\* is no dict (it has no .get) is stored before AttributeError is raised.
StoreResult(result, domain, held_domain) ==
    IF result.kind = "dict"
    THEN [analysis_results |-> result,
          domain_detected |-> DictGet(result, DOMAIN_KEY, PyStr(domain)),
          outcome |-> "ok", returned |-> result, raw_shown |-> FALSE,
          calls |-> 1]
    ELSE [analysis_results |-> result, domain_detected |-> held_domain,
          outcome |-> "attribute_error", returned |-> None,
          raw_shown |-> FALSE, calls |-> 1]

\* content[start:end] for positions from 1: one character short
SliceShort(s, start, end) == SubSeq(s, start, end - 1)

\* content[start:end+1] for positions from 1
Slice(s, start, end) == SubSeq(s, start, end)

\* a handler that asks the provider once more before it gives up
ProviderFailedRetried(held, held_domain) ==
    Leave(held, held_domain, "provider_error", FALSE, 2)

\* client.chat.completions.create raised: `except Exception` reports and
\* returns None
ProviderFailed(held, held_domain) ==
    Leave(held, held_domain, "provider_error", FALSE, 1)

\* the try block: one request to the provider, then the handling of its
\* answer
ask_model(domain, response, held, held_domain) ==
    IF response.raises THEN ProviderFailed(held, held_domain)
    ELSE LET strict == json_loads(response.body)
         IN  IF strict.ok THEN StoreResult(strict.val, domain, held_domain)
             ELSE LET start == find(response.body, "{")
                      end == rfind(response.body, "}")
                  IN  IF start # 0 /\ end # 0
                      THEN LET again == json_loads(Slice(response.body, start, end))
                           IN  IF again.ok
                               THEN StoreResult(again.val, domain, held_domain)
                               ELSE Leave(held, held_domain, "decode_error", FALSE, 1)
                      ELSE Leave(held, held_domain, "format_error", TRUE, 1)

\* the function without its test of the credential
analyze_without_key_check(key, domain, response, held, held_domain) ==
    ask_model(domain, response, held, held_domain)

analyze_job_description(key, domain, response, held, held_domain) ==
    IF key = "" THEN Leave(held, held_domain, "key_not_provided", FALSE, 0)
    ELSE ask_model(domain, response, held, held_domain)

(***************************************************************************)
(* The generate and clear buttons.                                         *)
(***************************************************************************)
GENERAL == <<"g", "e", "n", "e", "r", "a", "l">>
AUTO_DETECT == <<"a", "u", "t", "o", "_", "d", "e", "t", "e", "c", "t">>
FINANCE == <<"f", "i", "n", "a", "n", "c", "e">>
DomainChoices == {AUTO_DETECT, FINANCE}
JobDescriptions == {<<>>, <<" ">>, <<"j", "o", "b">>}

\* job_description.strip() is empty
Blank(s) == \A i \in 1..Len(s) : s[i] \in Whitespace

\* the handler of the generate button, for one job description, one domain
\* choice and one answer of the provider
Generate(job_description, domain, response) ==
    IF api_key = ""
    THEN /\ outcome' = "key_not_entered"
         /\ returned' = None
         /\ raw_shown' = FALSE
         /\ calls' = 0
         /\ content' = <<>>
         /\ UNCHANGED <<api_key, analysis_results, domain_detected>>
    ELSE IF Blank(job_description)
    THEN /\ outcome' = "job_missing"
         /\ returned' = None
         /\ raw_shown' = FALSE
         /\ calls' = 0
         /\ content' = <<>>
         /\ UNCHANGED <<api_key, analysis_results, domain_detected>>
    ELSE \E r \in {analyze_job_description(
                       api_key, IF domain = AUTO_DETECT THEN GENERAL ELSE domain,
                       response, analysis_results, domain_detected)} :
             /\ analysis_results' = r.analysis_results
             /\ domain_detected' = r.domain_detected
             /\ outcome' = r.outcome
             /\ returned' = r.returned
             /\ raw_shown' = r.raw_shown
             /\ calls' = r.calls
             /\ content' = response.body
             /\ UNCHANGED api_key

\* the response bodies of the session: one or two of these pieces
ReplyPieces ==
    {<<"{", "\"">> \o DOMAIN_KEY \o <<"\"", ":", "\"", "x", "\"", "}">>,
     <<"{", "\"", "x", "\"", ":", "1", "}">>,
     <<"[", "1", "]">>,
     <<"a">>,
     <<"{">>}

Replies == {Raised} \cup {Body(b) : b \in Sentences(ReplyPieces, MaxReply)}

ValidatorsIdle ==
    /\ search_string = <<>>
    /\ pc = "idle"
    /\ validation = NoReport
    /\ estimate = NoEstimate
    /\ da_validation = NoReport
    /\ displayed = <<>>

Init ==
    /\ ValidatorsIdle
    /\ api_key \in {"", "sk-test"}
    /\ analysis_results = None
    /\ domain_detected = None
    /\ content = <<>>
    /\ outcome = "none"
    /\ returned = None
    /\ raw_shown = FALSE
    /\ calls = 0
    /\ job_text = <<>>
    /\ prompt = <<>>

GenerateButton ==
    /\ \E job_description \in JobDescriptions, domain \in DomainChoices,
          response \in Replies :
           Generate(job_description, domain, response)
    /\ UNCHANGED <<job_text, prompt>>
    /\ UNCHANGED validator_vars

\* the clear button is drawn only while analysis_results is truthy
ClearButton ==
    /\ Truthy(analysis_results)
    /\ analysis_results' = None
    /\ domain_detected' = None
    /\ UNCHANGED <<api_key, content, outcome, returned, raw_shown, calls>>
    /\ UNCHANGED <<job_text, prompt>>
    /\ UNCHANGED validator_vars

\* every run of the script reads the credential again, from the environment
\* and then from the secrets, so that it can come and go between two requests
LoadCredential ==
    /\ api_key' \in {"", "sk-test"}
    /\ api_key' # api_key
    /\ UNCHANGED <<analysis_results, domain_detected, content, outcome,
                   returned, raw_shown, calls, job_text, prompt>>
    /\ UNCHANGED validator_vars

Next == GenerateButton \/ ClearButton \/ LoadCredential

Spec == Init /\ [][Next]_vars

(***************************************************************************)
(* The handling of one response body, for every body of a few pieces.      *)
(***************************************************************************)
BodyPieces ==
    {<<"{">>, <<"}">>, <<"[">>, <<"]">>, <<":">>, <<",">>, <<" ">>, <<"a">>,
     <<"\"", "x", "\"">>, <<"\"">> \o DOMAIN_KEY \o <<"\"", ":">>}

Bodies == Sentences(BodyPieces, MaxBody)

InitParse ==
    /\ ValidatorsIdle
    /\ api_key = "sk-test"
    /\ analysis_results = None
    /\ domain_detected = None
    /\ content \in Bodies
    /\ outcome = "none"
    /\ returned = None
    /\ raw_shown = FALSE
    /\ calls = 0
    /\ job_text = <<>>
    /\ prompt = <<>>

HandleResponse ==
    /\ outcome = "none"
    /\ Generate(<<"j", "o", "b">>, FINANCE, Body(content))
    /\ UNCHANGED <<job_text, prompt>>
    /\ UNCHANGED validator_vars

NextParse == HandleResponse

SpecParse == InitParse /\ [][NextParse]_vars

(***************************************************************************)
(* create_improved_prompt. The prompt is a sequence whose elements are the *)
(* characters of the values put into the template and of the lines around  *)
(* the job description; every other stretch of the template's fixed text   *)
(* is one element that names it.                                           *)
(***************************************************************************)
PromptLimit == 15000

SOFTWARE_ENGINEERING ==
    <<"s", "o", "f", "t", "w", "a", "r", "e", "_",
      "e", "n", "g", "i", "n", "e", "e", "r", "i", "n", "g">>
INTERNATIONAL_DEVELOPMENT ==
    <<"i", "n", "t", "e", "r", "n", "a", "t", "i", "o", "n", "a", "l", "_",
      "d", "e", "v", "e", "l", "o", "p", "m", "e", "n", "t">>
BOTH == <<"b", "o", "t", "h">>
LINKEDIN == <<"l", "i", "n", "k", "e", "d", "i", "n">>

\* the checkboxes, as they are first drawn
include_location == TRUE
include_seniority == TRUE

\* str(b) of a bool
BoolText(b) == IF b THEN <<"T", "r", "u", "e">> ELSE <<"F", "a", "l", "s", "e">>

\* contexts.get(domain, "")
get_domain_context(domain) ==
    IF domain = SOFTWARE_ENGINEERING THEN <<"[Software Engineering Context]">>
    ELSE IF domain = INTERNATIONAL_DEVELOPMENT
    THEN <<"[International Development Context]">>
    ELSE IF domain = FINANCE THEN <<"[Finance Context]">>
    ELSE <<>>

PHILOSOPHY_BLOCK == <<"[You are an expert recruiter ... # YOUR TASK: ...]">>
STRATEGY_BLOCK == <<"[## Step 1: Extract Core Requirements ... # CONFIGURATION:]">>
JOB_HEADING ==
    <<"\n", "#", " ", "J", "O", "B", " ", "D", "E", "S", "C", "R", "I", "P", "T",
      "I", "O", "N", ":", "\n">>
OUTPUT_BLOCK == <<"\n", "\n", "[# OUTPUT FORMAT (JSON): ... not perfect theoretical matches!]">>

\* the four lines under '# CONFIGURATION:'
Configuration(platform, domain) ==
    <<"[- Platform: ]">> \o platform \o <<"\n", "[- Domain: ]">> \o domain
        \o <<"\n", "[- Include location: ]">> \o BoolText(include_location)
        \o <<"\n", "[- Include seniority: ]">> \o BoolText(include_seniority)
        \o <<"\n">>

\* s[:n]
Prefix(s, n) == SubSeq(s, 1, IF Len(s) < n THEN Len(s) ELSE n)

\* a slice that keeps one character more
job_section_one_more(text) == Prefix(text, PromptLimit + 1)

\* {job_text[:15000]}
job_section(text) == Prefix(text, PromptLimit)

create_improved_prompt(text, platform, domain) ==
    LET domain_context ==
            IF domain # AUTO_DETECT THEN get_domain_context(domain) ELSE <<>>
    IN  PHILOSOPHY_BLOCK \o domain_context \o STRATEGY_BLOCK
            \o Configuration(platform, domain) \o JOB_HEADING
            \o job_section(text) \o OUTPUT_BLOCK

(***************************************************************************)
(* The prompt of one job text, for job texts of a few pieces: a run one    *)
(* character short of the limit, and single characters.                    *)
(***************************************************************************)
MaxJob == 3

Block == [i \in 1..(PromptLimit - 1) |-> "x"]
JobPieces == {Block, <<"a">>, <<"b">>, <<"\n">>}
JobTexts == Sentences(JobPieces, MaxJob)
Platforms == {BOTH, LINKEDIN}
PromptDomains == {GENERAL, FINANCE}

InitPrompt ==
    /\ ValidatorsIdle
    /\ api_key = "sk-test"
    /\ analysis_results = None
    /\ domain_detected = None
    /\ content = <<>>
    /\ outcome = "none"
    /\ returned = None
    /\ raw_shown = FALSE
    /\ calls = 0
    /\ job_text \in JobTexts
    /\ prompt = <<>>

BuildPrompt ==
    /\ prompt = <<>>
    /\ \E platform \in Platforms, domain \in PromptDomains :
           prompt' = create_improved_prompt(job_text, platform, domain)
    /\ UNCHANGED <<api_key, analysis_results, domain_detected, content, outcome,
                   returned, raw_shown, calls, job_text>>
    /\ UNCHANGED validator_vars

NextPrompt == BuildPrompt

SpecPrompt == InitPrompt /\ [][NextPrompt]_vars


(***************************************************************************)
(* Properties of the validators and the estimator.                         *)
(***************************************************************************)
LinkedinValidated == pc \in {"validated", "estimated", "done"}
Estimated == pc \in {"estimated", "done"}
DevelopmentaidValidated == pc = "done"

\* C1: in the report of either validator, valid is true exactly when the
\* issues list is empty, whatever the warnings list holds.
C1_ValidIffNoIssues ==
    /\ LinkedinValidated => (validation.valid <=> validation.issues = <<>>)
    /\ DevelopmentaidValidated =>
           (da_validation.valid <=> da_validation.issues = <<>>)

\* a string that only triggers warnings, in both dialects, and is valid
C1_Witness ==
    /\ DevelopmentaidValidated
    /\ validation.warnings # <<>>
    /\ validation.valid
    /\ da_validation.warnings # <<>>
    /\ da_validation.valid

\* 1 when the length penalty applies to the validated string, else 0
PenaltyExponent == IF validation.length > PenaltyLimit THEN 1 ELSE 0

\* 100 * 0.35^a * 0.25^t * 0.7^p > k, cleared of fractions and divided by 10:
\* (k/10) * 20^a * 4^t * 10^p < 10 * 7^(a+p)
ScoreAbove(k, a, t, p) ==
    (k \div 5) * (20 ^ a) * (4 ^ t) * (10 ^ p) < 20 * (7 ^ (a + p))

\* C5: the estimate is the band of 100 * 0.35^and_count * 0.25^title_count
\* (* 0.7 over 500 characters): above 50, above 20, above 5, or below; a short
\* string with no AND and no title: is in the top band, four ANDs or more are
\* in the bottom band.
C5_EstimateBands ==
    Estimated =>
        LET a == validation.and_count
            t == validation.title_count
            p == PenaltyExponent
        IN  /\ estimate.estimated_range =
                   IF ScoreAbove(50, a, t, p) THEN "500-2000+"
                   ELSE IF ScoreAbove(20, a, t, p) THEN "100-500"
                   ELSE IF ScoreAbove(5, a, t, p) THEN "20-100"
                   ELSE "0-20"
            /\ \E g \in 1..100 :
                   /\ estimate.score[1] * g = 100 * (7 ^ (a + p))
                   /\ estimate.score[2] * g = (20 ^ a) * (4 ^ t) * (10 ^ p)
            /\ (validation.length <= 500 /\ a = 0 /\ t = 0)
                   => estimate.estimated_range = "500-2000+"
            /\ a >= 4 => estimate.estimated_range = "0-20"

\* a string over 500 characters with one AND: 100 * 0.35 * 0.7 = 24.5
C5_Witness ==
    /\ Estimated
    /\ validation.length > PenaltyLimit
    /\ validation.and_count = 1
    /\ validation.title_count = 0
    /\ estimate.estimated_range = "100-500"

\* C6 as stated: and_count and or_count are the occurrences of upper-case
\* ' AND ' and ' OR ' in the string as given.
C6_CountsAsGiven ==
    LinkedinValidated =>
        /\ validation.and_count = count(search_string, AND_TOKEN)
        /\ validation.or_count = count(search_string, OR_TOKEN)

\* the places where token occurs in s, letter case ignored
OccurrencesAnyCase(s, token) ==
    {i \in 1..(Len(s) - Len(token) + 1) :
        \A k \in 1..Len(token) : ToUpper(s[i + k - 1]) = ToUpper(token[k])}

\* the largest number of occurrences no two of which overlap
MostDisjoint(occ, width) ==
    LET fits(n) == \E chosen \in SUBSET occ :
                       /\ Cardinality(chosen) = n
                       /\ \A i, j \in chosen : i < j => j - i >= width
    IN  CHOOSE n \in 0..Cardinality(occ) : fits(n) /\ ~fits(n + 1)

\* C6 amended: and_count, or_count and title_count are the numbers of
\* non-overlapping occurrences of ' AND ', ' OR ' and 'title:' whatever the
\* letter case, and complexity_score is built from those counts.
C6_CountsAnyCase ==
    LinkedinValidated =>
        LET a == MostDisjoint(OccurrencesAnyCase(search_string, AND_TOKEN), 5)
            o == MostDisjoint(OccurrencesAnyCase(search_string, OR_TOKEN), 4)
            t == MostDisjoint(OccurrencesAnyCase(search_string, TITLE_TOKEN), 6)
        IN  /\ validation.and_count = a
            /\ validation.or_count = o
            /\ validation.title_count = t
            /\ validation.complexity_x10 = (20 * a) + (5 * o) + (30 * t)

\* a lower-case ' and ' that is counted and lowers the estimate
C6_Witness ==
    /\ Estimated
    /\ Contains(search_string, <<" ", "a", "n", "d", " ">>)
    /\ ~Contains(search_string, AND_TOKEN)
    /\ validation.and_count >= 1
    /\ validation.complexity_x10 >= 20
    /\ estimate.estimated_range # "500-2000+"

\* the operator words of s: the maximal runs of word characters that spell
\* and, or, not in some letter case
OperatorWords(s) ==
    UNION {{SubSeq(s, i, i + n - 1) :
               i \in {i \in 1..(Len(s) - n + 1) :
                         /\ upper(SubSeq(s, i, i + n - 1)) \in UpperOperators
                         /\ i > 1 => ~IsWordChar(s[i - 1])
                         /\ i + n <= Len(s) => ~IsWordChar(s[i + n])}} :
           n \in {2, 3}}

\* C7: a string with and, or, not as a whole lower-case word gets the issue
\* 'Boolean operators must be UPPERCASE'; a string whose operator words are
\* all upper-case does not.
C7_LowercaseOperators ==
    LinkedinValidated =>
        LET words == OperatorWords(search_string)
            reported == LowercaseIssue \in Range(validation.issues)
        IN  /\ (words \cap LowerOperators # {}) => reported
            /\ (words \subseteq UpperOperators) => ~reported

\* a string with a lower-case and an upper-case operator word, reported
C7_Witness ==
    /\ LinkedinValidated
    /\ OperatorWords(search_string) \cap LowerOperators # {}
    /\ OperatorWords(search_string) \cap UpperOperators # {}
    /\ LowercaseIssue \in Range(validation.issues)

\* '*' at i starts a word
StartsWord(s, i) ==
    /\ s[i] = "*"
    /\ i = 1 \/ ~IsWordChar(s[i - 1])
    /\ i < Len(s) /\ IsWordChar(s[i + 1])

\* '*' at i is a suffix wildcard
EndsWord(s, i) ==
    /\ s[i] = "*"
    /\ i > 1 /\ IsWordChar(s[i - 1])
    /\ i = Len(s) \/ ~IsWordChar(s[i + 1])

\* C8: a string in which a '*' starts a word gets the prefix-wildcard issue;
\* a string in which every '*' is a suffix wildcard does not.
C8_PrefixWildcard ==
    DevelopmentaidValidated =>
        LET s == search_string
            stars == {i \in 1..Len(s) : s[i] = "*"}
            reported == PrefixWildcardIssue \in Range(da_validation.issues)
        IN  /\ (\E i \in stars : StartsWord(s, i)) => reported
            /\ (\A i \in stars : EndsWord(s, i)) => ~reported

\* a string with a word-initial '*', reported
C8_Witness ==
    /\ DevelopmentaidValidated
    /\ \E i \in 1..Len(search_string) : StartsWord(search_string, i)
    /\ PrefixWildcardIssue \in Range(da_validation.issues)

\* position i lies between an opening quote and its closing quote, the
\* quotes being paired left to right
InsidePhrase(s, i) ==
    /\ Cardinality({q \in 1..(i - 1) : s[q] = "\""}) % 2 = 1
    /\ \E q \in (i + 1)..Len(s) : s[q] = "\""

\* C9: a string with a '*' inside a quoted phrase gets the issue 'Wildcard *
\* cannot be used inside quoted phrases' and is invalid.
C9_PhraseWildcard ==
    DevelopmentaidValidated =>
        ((\E i \in 1..Len(search_string) :
              search_string[i] = "*" /\ InsidePhrase(search_string, i))
            => /\ PhraseWildcardIssue \in Range(da_validation.issues)
               /\ ~da_validation.valid)

\* a balanced string with a '*' right after the opening quote, reported
C9_Witness ==
    /\ DevelopmentaidValidated
    /\ \E i \in 2..Len(search_string) :
           /\ search_string[i] = "*"
           /\ search_string[i - 1] = "\""
           /\ InsidePhrase(search_string, i)
    /\ ~UnmatchedQuotes(search_string)
    /\ PhraseWildcardIssue \in Range(da_validation.issues)

\* C10: the boost-pairing warning is given exactly when the string has a '^'
\* and no '|'.
C10_BoostWarning ==
    DevelopmentaidValidated =>
        (BoostWarning \in Range(da_validation.warnings)
            <=> /\ \E i \in 1..Len(search_string) : search_string[i] = "^"
                /\ \A i \in 1..Len(search_string) : search_string[i] # "|")

\* a boosted group with an OR, not warned about
C10_Witness ==
    /\ DevelopmentaidValidated
    /\ \E i \in 1..Len(search_string) : search_string[i] = "^"
    /\ \E i \in 1..Len(search_string) : search_string[i] = "|"
    /\ BoostWarning \notin Range(da_validation.warnings)

\* the number of double-quote characters of s
QuoteCount(s) == Cardinality({i \in 1..Len(s) : s[i] = "\""})

\* C11: a string with an odd number of double quotes gets the issue
\* 'Unmatched quotes detected' from both validators, and both call it invalid.
C11_OddQuotesReported ==
    (QuoteCount(search_string) % 2 = 1) =>
        /\ LinkedinValidated =>
               /\ QuotesIssue \in Range(validation.issues)
               /\ ~validation.valid
        /\ DevelopmentaidValidated =>
               /\ QuotesIssue \in Range(da_validation.issues)
               /\ ~da_validation.valid

\* three quotes, one phrase closed and one left open, reported by both
C11_Witness ==
    /\ DevelopmentaidValidated
    /\ QuoteCount(search_string) = 3
    /\ QuotesIssue \in Range(validation.issues)
    /\ QuotesIssue \in Range(da_validation.issues)
    /\ ~validation.valid
    /\ ~da_validation.valid

\* C15: a string with an even number of double quotes in which no '*' lies
\* inside a quoted phrase (the quotes paired left to right) does not get the
\* issue 'Wildcard * cannot be used inside quoted phrases'; a '*' between
\* the closing quote of one phrase and the opening quote of the next is
\* outside both.
C15_NoReportOutsidePhrases ==
    DevelopmentaidValidated =>
        ((/\ QuoteCount(search_string) % 2 = 0
          /\ \A i \in 1..Len(search_string) :
                 search_string[i] = "*" => ~InsidePhrase(search_string, i))
            => PhraseWildcardIssue \notin Range(da_validation.issues))

\* the bands, from the narrowest to the broadest
BandRank(band) ==
    CASE band = "0-20" -> 1
      [] band = "20-100" -> 2
      [] band = "100-500" -> 3
      [] band = "500-2000+" -> 4

\* q <= r for two fractions with positive denominators
NoGreater(q, r) == q[1] * r[2] <= r[1] * q[2]

\* the entry displayed before is s, the entry estimated now is s'
Compared == Estimated /\ displayed # <<>>

\* s' is at least as restrictive as s: no fewer ANDs, no fewer title:, and
\* over 500 characters if s is
AtLeastAsRestrictive ==
    LET before == displayed[1].validation
    IN  /\ validation.and_count >= before.and_count
        /\ validation.title_count >= before.title_count
        /\ before.length > 500 => validation.length > 500

\* C16: of two strings, the one that is at least as restrictive gets a score
\* no greater and a band no higher than the other.
C16_EstimateMonotone ==
    (Compared /\ AtLeastAsRestrictive) =>
        /\ NoGreater(estimate.score, displayed[1].estimate.score)
        /\ BandRank(estimate.estimated_range)
               <= BandRank(displayed[1].estimate.estimated_range)

\* more ANDs, more title: and the length penalty take a string two bands down
C16_Witness ==
    /\ Compared
    /\ AtLeastAsRestrictive
    /\ validation.and_count > displayed[1].validation.and_count
    /\ validation.title_count > displayed[1].validation.title_count
    /\ validation.length > 500
    /\ displayed[1].validation.length <= 500
    /\ BandRank(estimate.estimated_range) + 2
           = BandRank(displayed[1].estimate.estimated_range)

(***************************************************************************)
(* Properties of the response handling and of the session.                 *)
(***************************************************************************)
Handled == outcome \notin {"none", "key_not_entered", "job_missing"}

\* the part of the handled body from its first '{' to its last '}'; what is
\* before and after it holds no brace
Braced == SubSeq(content, find(content, "{"), rfind(content, "}"))
HasBraces == find(content, "{") # 0 /\ rfind(content, "}") # 0

\* what analyze_job_description leaves when the body is the braced part alone
BracedAlone ==
    analyze_job_description(api_key, FINANCE, Body(Braced), None, None)

\* the handled request returned, and stored, the object of the braced part
SameAsBracedAlone ==
    /\ outcome = "ok"
    /\ returned = BracedAlone.returned
    /\ analysis_results = BracedAlone.analysis_results
    /\ domain_detected = BracedAlone.domain_detected

\* C2 as stated: a body made of brace-free text, a valid JSON object and
\* brace-free text gives the object that the JSON object alone gives.
C2_BraceExtraction ==
    (Handled /\ HasBraces /\ BracedAlone.outcome = "ok") => SameAsBracedAlone

\* the handled body is, as a whole, JSON of another type than an object
WholeIsOtherJson ==
    json_loads(content).ok /\ json_loads(content).val.kind # "dict"

\* C2 amended: the same, for the bodies that are not as a whole a JSON value
\* of another type (such as the object inside '[' and ']').
C2_BraceExtractionUnlessOtherJson ==
    (Handled /\ HasBraces /\ BracedAlone.outcome = "ok" /\ ~WholeIsOtherJson)
        => SameAsBracedAlone

\* an object with text before it, recovered by the fallback
C2_Witness ==
    /\ Handled
    /\ HasBraces
    /\ BracedAlone.outcome = "ok"
    /\ ~json_loads(content).ok
    /\ content[1] = "a"
    /\ SameAsBracedAlone

\* C3: a body that fails the strict parse and the parse of its braced part
\* (or has no braced part) ends in the response-format error that shows the
\* raw response.
C3_RawShownWhenUnparseable ==
    (/\ Handled
     /\ ~json_loads(content).ok
     /\ HasBraces => ~json_loads(Braced).ok)
        => (outcome = "format_error" /\ raw_shown)

\* C4: a generation attempt that ends in an error leaves analysis_results
\* and domain_detected as they were.
C4_FailureWritesNothing ==
    [][(GenerateButton /\ outcome' # "ok")
          => UNCHANGED <<analysis_results, domain_detected>>]_vars

\* what a direct call of analyze_job_description would leave in this state
DirectCall(domain, response) ==
    analyze_job_description(api_key, domain, response, analysis_results,
                            domain_detected)

\* with no credential, a call for any domain and any answer the provider
\* could give ends in the error, asks the provider nothing and writes nothing
DirectCallRefused ==
    \A domain \in {GENERAL, FINANCE}, response \in Replies :
        LET r == DirectCall(domain, response)
        IN  /\ r.calls = 0
            /\ r.outcome = "key_not_provided"
            /\ r.returned = None
            /\ r.analysis_results = analysis_results
            /\ r.domain_detected = domain_detected

\* a press of the generate button with no credential ends in an error, makes
\* no model call and leaves the held analysis as it was
ButtonRefused ==
    (api_key = "" /\ GenerateButton)
        => /\ outcome' \in {"key_not_entered", "key_not_provided"}
           /\ calls' = 0
           /\ returned' = None
           /\ UNCHANGED <<analysis_results, domain_detected>>

\* C13: while no credential is configured, no model call is made: the
\* generate button and a direct call of analyze_job_description both end in
\* an error before the provider is asked, and the held analysis is unchanged.
C13_NoCredentialNoCall ==
    [](api_key = "" => DirectCallRefused) /\ [][ButtonRefused]_vars

\* an analysis is held, the credential is gone, and a request was refused
C13_Witness ==
    /\ api_key = ""
    /\ outcome = "key_not_entered"
    /\ calls = 0
    /\ Truthy(analysis_results)
    /\ DirectCallRefused

\* C14: a generation request makes at most one model call: exactly one when
\* the provider fails, when its answer cannot be parsed and when the request
\* succeeds, and none when the request is refused before.
C14_AtMostOneCall ==
    /\ calls <= 1
    /\ outcome \in {"provider_error", "decode_error", "format_error",
                     "attribute_error", "ok"} => calls = 1
    /\ outcome \in {"none", "key_not_entered", "job_missing"} => calls = 0

\* a request whose one call failed at the provider
C14_Witness ==
    /\ outcome = "provider_error"
    /\ calls = 1

(***************************************************************************)
(* Properties of the prompt.                                               *)
(***************************************************************************)
\* the place in the prompt right after the first '# JOB DESCRIPTION:' line
SectionStart ==
    LET occ == Occurrences(prompt, JOB_HEADING)
    IN  (CHOOSE i \in occ : \A j \in occ : i <= j) + Len(JOB_HEADING)

\* C12: the prompt embeds exactly the first min(len(job text), 15000)
\* characters of the job text: they follow the '# JOB DESCRIPTION:' line, and
\* right after them comes the blank line and the output-format text that end
\* the prompt.
C12_PromptEmbedsPrefix ==
    prompt # <<>> =>
        LET n == IF Len(job_text) < 15000 THEN Len(job_text) ELSE 15000
            from == SectionStart
        IN  /\ Occurrences(prompt, JOB_HEADING) # {}
            /\ Len(prompt) = (from - 1) + n + Len(OUTPUT_BLOCK)
            /\ \A k \in 1..n : prompt[from + k - 1] = job_text[k]
            /\ \A k \in 1..Len(OUTPUT_BLOCK) :
                   prompt[from + n + k - 1] = OUTPUT_BLOCK[k]

\* a job text of 15001 characters whose last character is left out
C12_Witness ==
    /\ prompt # <<>>
    /\ Len(job_text) = PromptLimit + 1
    /\ job_text[PromptLimit] = "a"
    /\ job_text[PromptLimit + 1] = "b"
    /\ prompt[SectionStart + PromptLimit - 1] = "a"
    /\ prompt[SectionStart + PromptLimit] = "\n"

====
